---------------------------- MODULE Spec2Model ----------------------------
(***************************************************************************)
(* Library catalog (Biblioteca) with its entities Libro, Usuario, Prestamo *)
(* and the file-backed JsonStorageAdapter.                                 *)
(*                                                                         *)
(* A JavaScript Map is modelled as the sequence of its values in insertion *)
(* order; the key of a value is its id field (every Map.set of the source  *)
(* uses the id of the object it stores as the key).  A JavaScript object   *)
(* is a record; a JSON object is a record that holds only the properties   *)
(* JSON.stringify writes.  The file of the adapter holds the parsed form   *)
(* of the text written to it.                                              *)
(***************************************************************************)
EXTENDS Integers, Sequences, FiniteSets, TLC

VARIABLES
    libros,     \* Biblioteca.libros    : Map<number, Libro>
    usuarios,   \* Biblioteca.usuarios  : Map<number, Usuario>
    prestamos,  \* Biblioteca.prestamos : Map<number, Prestamo>
    nextIds,    \* Biblioteca.nextIds   : {libro, usuario, prestamo}
    dataFile,   \* content of data/biblioteca.json
    now,        \* the system clock read by new Date()
    ret,        \* the value returned by the last call on the catalog
    otra        \* the fields of a second Biblioteca on the same storage

mem  == <<libros, usuarios, prestamos, nextIds>>
vars == <<libros, usuarios, prestamos, nextIds, dataFile, now, ret, otra>>

---------------------------------------------------------------------------
(* Bounds of the model *)

\* the calls of a run: crearLibro, crearUsuario and successful prestarLibro
\* are enabled while the counter they advance is at most the bound
MaxLibros == 2
MaxUsuarios == 1
MaxPrestamos == 2

\* the instants the clock shows during a run
Instantes == {1, 2}

\* the arguments of crearLibro and crearUsuario
Titulos == {"El Quijote"}
Autores == {"Miguel de Cervantes"}
Anios   == {1605}
Nombres == {"Ana Pérez"}

\* the ids a caller passes: every id the run issues and one it never issues
LibroIdArgs    == 1 .. (MaxLibros + 1)
UsuarioIdArgs  == 1 .. (MaxUsuarios + 1)
PrestamoIdArgs == 1 .. (MaxPrestamos + 1)

---------------------------------------------------------------------------
(* JavaScript values *)

Undefined == "undefined"

\* JavaScript truthiness of a string-or-undefined value
Truthy(v) == v # Undefined /\ v # ""

\* new Date(t).toISOString(): a non-empty string, one per instant
toISOString(t) == "2025-01-01T00:00:00.00" \o ToString(t) \o "Z"

\* obj.k of a JSON object: undefined when the property is absent
Prop(obj, k) == IF k \in DOMAIN obj THEN obj[k] ELSE Undefined

---------------------------------------------------------------------------
(* Map<number, T> *)

MapHas(m, k) == \E i \in 1..Len(m) : m[i].id = k

MapGet(m, k) == m[CHOOSE i \in 1..Len(m) : m[i].id = k]

\* Map.set(k, v) with k = v.id: replaces in place, or appends
MapSet(m, v) ==
    IF MapHas(m, v.id)
    THEN [i \in 1..Len(m) |-> IF m[i].id = v.id THEN v ELSE m[i]]
    ELSE Append(m, v)

MapKeys(m) == {m[i].id : i \in 1..Len(m)}

---------------------------------------------------------------------------
(* Libro *)

\* mutant: a new book starts as not available
Libro_prestado(id, titulo, autor, anio) ==
    [id |-> id, titulo |-> titulo, autor |-> autor, anio |-> anio,
     disponible |-> FALSE]

Libro(id, titulo, autor, anio) ==
    [id |-> id, titulo |-> titulo, autor |-> autor, anio |-> anio,
     disponible |-> TRUE]

\* mutant: every book reads as available
Libro_isDisponible_siempre(l) == TRUE

Libro_isDisponible(l) == l.disponible

\* mutant: prestar() reports success and leaves the flag as it is
Libro_prestar_sinCambio(l) == [obj |-> l, ret |-> l.disponible]

\* returns the object after the call and the value returned
Libro_prestar(l) ==
    IF ~l.disponible
    THEN [obj |-> l, ret |-> FALSE]
    ELSE [obj |-> [l EXCEPT !.disponible = FALSE], ret |-> TRUE]

\* mutant: devolver() reports success whatever the state of the book
Libro_devolver_siempre(l) == [obj |-> [l EXCEPT !.disponible = TRUE], ret |-> TRUE]

\* mutant: devolver() reports success and leaves the flag as it is
Libro_devolver_sinCambio(l) == [obj |-> l, ret |-> ~l.disponible]

Libro_devolver(l) ==
    IF l.disponible
    THEN [obj |-> l, ret |-> FALSE]
    ELSE [obj |-> [l EXCEPT !.disponible = TRUE], ret |-> TRUE]

\* mutant: every book is written as available
Libro_toJSON_disponible(l) ==
    [id |-> l.id, titulo |-> l.titulo, autor |-> l.autor, anio |-> l.anio,
     disponible |-> TRUE]

Libro_toJSON(l) ==
    [id |-> l.id, titulo |-> l.titulo, autor |-> l.autor, anio |-> l.anio,
     disponible |-> l.disponible]

\* mutant: the saved availability is not restored
Libro_fromJSON_sinEstado(obj) == Libro(obj.id, obj.titulo, obj.autor, obj.anio)

Libro_fromJSON(obj) ==
    LET libro == Libro(obj.id, obj.titulo, obj.autor, obj.anio)
    IN  IF "disponible" \in DOMAIN obj /\ obj.disponible \in BOOLEAN
           /\ ~obj.disponible
        THEN Libro_prestar(libro).obj
        ELSE libro

---------------------------------------------------------------------------
(* Usuario *)

Usuario(id, nombre) == [id |-> id, nombre |-> nombre]

Usuario_toJSON(u) == [id |-> u.id, nombre |-> u.nombre]

Usuario_fromJSON(obj) == Usuario(obj.id, obj.nombre)

---------------------------------------------------------------------------
(* Prestamo *)

Prestamo(id, libroId, usuarioId, fechaPrestamo, fechaDevolucion) ==
    [id |-> id, libroId |-> libroId, usuarioId |-> usuarioId,
     fechaPrestamo |-> fechaPrestamo, fechaDevolucion |-> fechaDevolucion]

Prestamo_isActivo(p) == ~Truthy(p.fechaDevolucion)

Prestamo_devolver(p, fecha) ==
    IF ~Prestamo_isActivo(p)
    THEN [obj |-> p, ret |-> FALSE]
    ELSE [obj |-> [p EXCEPT !.fechaDevolucion = fecha], ret |-> TRUE]

Prestamo_toJSON(p) ==
    [id |-> p.id, libroId |-> p.libroId, usuarioId |-> p.usuarioId,
     fechaPrestamo |-> p.fechaPrestamo, fechaDevolucion |-> p.fechaDevolucion]

\* mutant: the fifth argument of the constructor is not passed
Prestamo_fromJSON_sinFecha(obj) ==
    Prestamo(obj.id, obj.libroId, obj.usuarioId, obj.fechaPrestamo, Undefined)

Prestamo_fromJSON(obj) ==
    Prestamo(obj.id, obj.libroId, obj.usuarioId, obj.fechaPrestamo,
             Prop(obj, "fechaDevolucion"))

---------------------------------------------------------------------------
(* JsonStorageAdapter *)

\* JSON.stringify of one object of an array: a property whose value is
\* undefined is not written
JSON_stringifyObject(o) ==
    IF "fechaDevolucion" \in DOMAIN o
    THEN IF o.fechaDevolucion = Undefined
         THEN [k \in DOMAIN o \ {"fechaDevolucion"} |-> o[k]]
         ELSE o
    ELSE o

JSON_stringifyArray(arr) == [i \in 1..Len(arr) |-> JSON_stringifyObject(arr[i])]

\* JSON.stringify(db) followed by JSON.parse of the text
JSON_stringify(db) ==
    [libros    |-> JSON_stringifyArray(db.libros),
     usuarios  |-> JSON_stringifyArray(db.usuarios),
     prestamos |-> JSON_stringifyArray(db.prestamos),
     nextIds   |-> db.nextIds]

NoFile == [exists |-> FALSE]

\* save(obj): the file after the call
JsonStorageAdapter_save(obj) == [exists |-> TRUE, json |-> JSON_stringify(obj)]

\* files that exist and make load() fail: readFileSync throws (the path is
\* a directory), JSON.parse throws (the text was cut short)
Corruptos ==
    {[exists |-> TRUE, error |-> "EISDIR"],
     [exists |-> TRUE, raw |-> "{ \"libros\": ["]}

\* whether fs.readFileSync or JSON.parse throws on the file
load_throws(file) == "json" \notin DOMAIN file

\* mutant: an error of the read is not caught as "no data": the caller gets
\* an object
JsonStorageAdapter_load_sinCatch(file) ==
    IF ~file.exists
    THEN [isNull |-> TRUE]
    ELSE IF load_throws(file)
         THEN [isNull |-> FALSE, value |-> [error |-> TRUE]]
         ELSE [isNull |-> FALSE, value |-> file.json]

\* load(): null when the file does not exist or the read or the parse
\* throws, else the parsed content
JsonStorageAdapter_load(file) ==
    IF ~file.exists
    THEN [isNull |-> TRUE]
    ELSE IF load_throws(file)
         THEN [isNull |-> TRUE]
         ELSE [isNull |-> FALSE, value |-> file.json]

---------------------------------------------------------------------------
(* Biblioteca: save and load *)

\* mutant: the counters start at 0
FreshIds_cero == [libro |-> 0, usuario |-> 0, prestamo |-> 0]

\* the fields of a Biblioteca before its constructor calls load()
FreshIds == [libro |-> 1, usuario |-> 1, prestamo |-> 1]

\* mutant: the counters written are the initial ones, not the current ones
Biblioteca_db_sinIds(L, U, P, N) ==
    [libros    |-> [i \in 1..Len(L) |-> Libro_toJSON(L[i])],
     usuarios  |-> [i \in 1..Len(U) |-> Usuario_toJSON(U[i])],
     prestamos |-> [i \in 1..Len(P) |-> Prestamo_toJSON(P[i])],
     nextIds   |-> FreshIds]

\* the DBShape object save() builds from the in-memory state
Biblioteca_db(L, U, P, N) ==
    [libros    |-> [i \in 1..Len(L) |-> Libro_toJSON(L[i])],
     usuarios  |-> [i \in 1..Len(U) |-> Usuario_toJSON(U[i])],
     prestamos |-> [i \in 1..Len(P) |-> Prestamo_toJSON(P[i])],
     nextIds   |-> N]

\* save(): the file after the call
Biblioteca_save(L, U, P, N) == JsonStorageAdapter_save(Biblioteca_db(L, U, P, N))

RECURSIVE loadLibros(_, _, _)
loadLibros(m, arr, i) ==
    IF i > Len(arr) THEN m
    ELSE loadLibros(MapSet(m, Libro_fromJSON(arr[i])), arr, i + 1)

RECURSIVE loadUsuarios(_, _, _)
loadUsuarios(m, arr, i) ==
    IF i > Len(arr) THEN m
    ELSE loadUsuarios(MapSet(m, Usuario_fromJSON(arr[i])), arr, i + 1)

RECURSIVE loadPrestamos(_, _, _)
loadPrestamos(m, arr, i) ==
    IF i > Len(arr) THEN m
    ELSE loadPrestamos(MapSet(m, Prestamo_fromJSON(arr[i])), arr, i + 1)

Fresh == [libros |-> <<>>, usuarios |-> <<>>, prestamos |-> <<>>,
          nextIds |-> FreshIds]

\* mutant: the counters of the file are not restored
Biblioteca_load_sinIds(file) ==
    LET data == JsonStorageAdapter_load(file)
    IN  IF data.isNull THEN Fresh
        ELSE LET d == data.value
             IN [libros    |-> IF "libros" \in DOMAIN d
                               THEN loadLibros(<<>>, d.libros, 1) ELSE <<>>,
                 usuarios  |-> IF "usuarios" \in DOMAIN d
                               THEN loadUsuarios(<<>>, d.usuarios, 1) ELSE <<>>,
                 prestamos |-> IF "prestamos" \in DOMAIN d
                               THEN loadPrestamos(<<>>, d.prestamos, 1) ELSE <<>>,
                 nextIds   |-> FreshIds]

\* load(): the fields after the call, on a fresh Biblioteca
Biblioteca_load(file) ==
    LET data == JsonStorageAdapter_load(file)
    IN  IF data.isNull THEN Fresh
        ELSE LET d == data.value
             IN [libros    |-> IF "libros" \in DOMAIN d
                               THEN loadLibros(<<>>, d.libros, 1) ELSE <<>>,
                 usuarios  |-> IF "usuarios" \in DOMAIN d
                               THEN loadUsuarios(<<>>, d.usuarios, 1) ELSE <<>>,
                 prestamos |-> IF "prestamos" \in DOMAIN d
                               THEN loadPrestamos(<<>>, d.prestamos, 1) ELSE <<>>,
                 nextIds   |-> IF "nextIds" \in DOMAIN d
                               THEN d.nextIds ELSE FreshIds]

---------------------------------------------------------------------------
(* Biblioteca: the operations *)

\* mutant: the constructor writes what it loaded back to the storage
constructor_guarda ==
    LET b == Biblioteca_load(dataFile)
    IN  /\ libros' = b.libros
        /\ usuarios' = b.usuarios
        /\ prestamos' = b.prestamos
        /\ nextIds' = b.nextIds
        /\ ret' = [op |-> "constructor"]
        /\ dataFile' = Biblioteca_save(b.libros, b.usuarios, b.prestamos, b.nextIds)
        /\ UNCHANGED <<now, otra>>

\* new Biblioteca(storage) on the storage of the running one: a restart
constructor ==
    LET b == Biblioteca_load(dataFile)
    IN  /\ libros' = b.libros
        /\ usuarios' = b.usuarios
        /\ prestamos' = b.prestamos
        /\ nextIds' = b.nextIds
        /\ ret' = [op |-> "constructor"]
        /\ UNCHANGED <<dataFile, now, otra>>

crearLibro(titulo, autor, anio) ==
    /\ nextIds.libro <= MaxLibros
    /\ LET id    == nextIds.libro
           libro == Libro(id, titulo, autor, anio)
       IN  /\ nextIds' = [nextIds EXCEPT !.libro = id + 1]
           /\ libros' = MapSet(libros, libro)
           /\ dataFile' = Biblioteca_save(libros', usuarios, prestamos, nextIds')
           /\ ret' = [op |-> "crearLibro", libro |-> libro]
           /\ UNCHANGED <<usuarios, prestamos, now, otra>>

crearUsuario(nombre) ==
    /\ nextIds.usuario <= MaxUsuarios
    /\ LET id      == nextIds.usuario
           usuario == Usuario(id, nombre)
       IN  /\ nextIds' = [nextIds EXCEPT !.usuario = id + 1]
           /\ usuarios' = MapSet(usuarios, usuario)
           /\ dataFile' = Biblioteca_save(libros, usuarios', prestamos, nextIds')
           /\ ret' = [op |-> "crearUsuario", usuario |-> usuario]
           /\ UNCHANGED <<libros, prestamos, now, otra>>

\* mutant: a failed validation is reported as a success
Fail_ok(op, args, mensaje) ==
    [op |-> op, args |-> args, ok |-> TRUE, mensaje |-> mensaje]

Fail(op, args, mensaje) ==
    [op |-> op, args |-> args, ok |-> FALSE, mensaje |-> mensaje]

\* mutant: the user is not looked up
prestarLibro_validaciones_sinUsuario(libroId, usuarioId) ==
    IF ~MapHas(libros, libroId) THEN "Libro no encontrado"
    ELSE IF ~Libro_isDisponible(MapGet(libros, libroId)) THEN "Libro no disponible"
    ELSE ""

\* mutant: the availability of the book is checked before the user
prestarLibro_validaciones_orden(libroId, usuarioId) ==
    IF ~MapHas(libros, libroId) THEN "Libro no encontrado"
    ELSE IF ~Libro_isDisponible(MapGet(libros, libroId)) THEN "Libro no disponible"
    ELSE IF ~MapHas(usuarios, usuarioId) THEN "Usuario no encontrado"
    ELSE ""

\* mutant: the book is also looked up in the stored snapshot
prestarLibro_validaciones_recarga(libroId, usuarioId) ==
    IF ~MapHas(libros, libroId) THEN "Libro no encontrado"
    ELSE IF ~MapHas(usuarios, usuarioId) THEN "Usuario no encontrado"
    ELSE IF ~Libro_isDisponible(MapGet(libros, libroId)) THEN "Libro no disponible"
    ELSE IF \E i \in 1..Len(Biblioteca_load(dataFile).libros) :
               /\ Biblioteca_load(dataFile).libros[i].id = libroId
               /\ ~Biblioteca_load(dataFile).libros[i].disponible
         THEN "Libro no disponible"
    ELSE ""

\* the message of the first validation that fails, "" when none does
prestarLibro_validaciones(libroId, usuarioId) ==
    IF ~MapHas(libros, libroId) THEN "Libro no encontrado"
    ELSE IF ~MapHas(usuarios, usuarioId) THEN "Usuario no encontrado"
    ELSE IF ~Libro_isDisponible(MapGet(libros, libroId)) THEN "Libro no disponible"
    ELSE ""

prestarLibro(libroId, usuarioId) ==
    IF prestarLibro_validaciones(libroId, usuarioId) # ""
    THEN /\ ret' = Fail("prestarLibro", <<libroId, usuarioId>>,
                        prestarLibro_validaciones(libroId, usuarioId))
         /\ UNCHANGED <<libros, usuarios, prestamos, nextIds, dataFile, now, otra>>
    ELSE /\ nextIds.prestamo <= MaxPrestamos
         /\ LET id       == nextIds.prestamo
                fecha    == toISOString(now)
                prestamo == Prestamo(id, libroId, usuarioId, fecha, Undefined)
            IN  /\ nextIds' = [nextIds EXCEPT !.prestamo = id + 1]
                /\ libros' = MapSet(libros, Libro_prestar(MapGet(libros, libroId)).obj)
                /\ prestamos' = MapSet(prestamos, prestamo)
                /\ dataFile' = Biblioteca_save(libros', usuarios, prestamos', nextIds')
                /\ ret' = [op |-> "prestarLibro", args |-> <<libroId, usuarioId>>,
                           ok |-> TRUE, mensaje |-> "Préstamo registrado",
                           prestamo |-> prestamo]
                /\ UNCHANGED <<usuarios, now, otra>>

\* mutant: the check that the loan is still active is missing
devolverLibro_validaciones_sinActivo(prestamoId) ==
    IF ~MapHas(prestamos, prestamoId) THEN "Préstamo no encontrado"
    ELSE IF ~MapHas(libros, MapGet(prestamos, prestamoId).libroId)
         THEN "Libro inexistente"
    ELSE ""

\* mutant: an unknown loan is reported as one that was returned already
devolverLibro_validaciones_unido(prestamoId) ==
    IF ~MapHas(prestamos, prestamoId) THEN "Ya devuelto"
    ELSE IF ~Prestamo_isActivo(MapGet(prestamos, prestamoId)) THEN "Ya devuelto"
    ELSE IF ~MapHas(libros, MapGet(prestamos, prestamoId).libroId)
         THEN "Libro inexistente"
    ELSE ""

\* mutant: the book of the loan is looked up before the loan is checked to
\* be active
devolverLibro_validaciones_orden(prestamoId) ==
    IF ~MapHas(prestamos, prestamoId) THEN "Préstamo no encontrado"
    ELSE IF ~MapHas(libros, MapGet(prestamos, prestamoId).libroId)
         THEN "Libro inexistente"
    ELSE IF ~Prestamo_isActivo(MapGet(prestamos, prestamoId)) THEN "Ya devuelto"
    ELSE ""

\* the message of the first validation that fails, "" when none does
devolverLibro_validaciones(prestamoId) ==
    IF ~MapHas(prestamos, prestamoId) THEN "Préstamo no encontrado"
    ELSE IF ~Prestamo_isActivo(MapGet(prestamos, prestamoId)) THEN "Ya devuelto"
    ELSE IF ~MapHas(libros, MapGet(prestamos, prestamoId).libroId)
         THEN "Libro inexistente"
    ELSE ""

devolverLibro(prestamoId) ==
    IF devolverLibro_validaciones(prestamoId) # ""
    THEN /\ ret' = Fail("devolverLibro", <<prestamoId>>,
                        devolverLibro_validaciones(prestamoId))
         /\ UNCHANGED <<libros, usuarios, prestamos, nextIds, dataFile, now, otra>>
    ELSE LET prestamo == MapGet(prestamos, prestamoId)
             libro    == MapGet(libros, prestamo.libroId)
         IN  /\ prestamos' = MapSet(prestamos,
                                Prestamo_devolver(prestamo, toISOString(now)).obj)
             /\ libros' = MapSet(libros, Libro_devolver(libro).obj)
             /\ dataFile' = Biblioteca_save(libros', usuarios, prestamos', nextIds)
             /\ ret' = [op |-> "devolverLibro", args |-> <<prestamoId>>,
                        ok |-> TRUE, mensaje |-> "Libro devuelto"]
             /\ UNCHANGED <<usuarios, nextIds, now, otra>>

listarLibros == libros

listarUsuarios == usuarios

\* mutant: the flag is ignored
listarPrestamos_todos(activosOnly) == prestamos

listarPrestamos(activosOnly) ==
    IF activosOnly THEN SelectSeq(prestamos, Prestamo_isActivo) ELSE prestamos

estadisticas_value ==
    [totalLibros      |-> Len(libros),
     disponibles      |-> Len(SelectSeq(libros, Libro_isDisponible)),
     prestamosActivos |-> Len(listarPrestamos(TRUE))]

\* mutant: estadisticas() saves the catalog
estadisticas_guarda ==
    /\ ret' = [op |-> "estadisticas", value |-> estadisticas_value]
    /\ dataFile' = Biblioteca_save(libros, usuarios, prestamos, nextIds)
    /\ UNCHANGED <<libros, usuarios, prestamos, nextIds, now, otra>>

estadisticas ==
    /\ ret' = [op |-> "estadisticas", value |-> estadisticas_value]
    /\ UNCHANGED <<libros, usuarios, prestamos, nextIds, dataFile, now, otra>>

\* a call of listarLibros()
op_listarLibros ==
    /\ ret' = [op |-> "listarLibros", value |-> listarLibros]
    /\ UNCHANGED <<libros, usuarios, prestamos, nextIds, dataFile, now, otra>>

\* a call of listarUsuarios()
op_listarUsuarios ==
    /\ ret' = [op |-> "listarUsuarios", value |-> listarUsuarios]
    /\ UNCHANGED <<libros, usuarios, prestamos, nextIds, dataFile, now, otra>>

\* a call of listarPrestamos(activosOnly)
op_listarPrestamos(activosOnly) ==
    /\ ret' = [op |-> "listarPrestamos", args |-> <<activosOnly>>,
               value |-> listarPrestamos(activosOnly)]
    /\ UNCHANGED <<libros, usuarios, prestamos, nextIds, dataFile, now, otra>>

\* the private save() on its own
save ==
    /\ dataFile' = Biblioteca_save(libros, usuarios, prestamos, nextIds)
    /\ ret' = [op |-> "save"]
    /\ UNCHANGED <<libros, usuarios, prestamos, nextIds, now, otra>>

\* time passes between two calls
Tick ==
    /\ now + 1 \in Instantes
    /\ now' = now + 1
    /\ UNCHANGED <<libros, usuarios, prestamos, nextIds, dataFile, ret, otra>>

---------------------------------------------------------------------------
(* The catalog of one process after another, on one data file that does    *)
(* not exist at first                                                      *)

\* no second Biblioteca has been constructed
SinOtra == [existe |-> FALSE]

Init ==
    /\ dataFile = NoFile
    /\ libros = Biblioteca_load(NoFile).libros
    /\ usuarios = Biblioteca_load(NoFile).usuarios
    /\ prestamos = Biblioteca_load(NoFile).prestamos
    /\ nextIds = Biblioteca_load(NoFile).nextIds
    /\ now = 1
    /\ ret = [op |-> "constructor"]
    /\ otra = SinOtra

Next ==
    \/ \E t \in Titulos, a \in Autores, y \in Anios : crearLibro(t, a, y)
    \/ \E n \in Nombres : crearUsuario(n)
    \/ \E l \in LibroIdArgs, u \in UsuarioIdArgs : prestarLibro(l, u)
    \/ \E p \in PrestamoIdArgs : devolverLibro(p)
    \/ estadisticas
    \/ constructor
    \/ Tick

Spec == Init /\ [][Next]_vars

\* every public method of Biblioteca and the restart, at one instant
NextListas ==
    \/ \E t \in Titulos, a \in Autores, y \in Anios : crearLibro(t, a, y)
    \/ \E n \in Nombres : crearUsuario(n)
    \/ \E l \in LibroIdArgs, u \in UsuarioIdArgs : prestarLibro(l, u)
    \/ \E p \in PrestamoIdArgs : devolverLibro(p)
    \/ estadisticas
    \/ op_listarLibros
    \/ op_listarUsuarios
    \/ \E b \in BOOLEAN : op_listarPrestamos(b)
    \/ constructor

SpecListas == Init /\ [][NextListas]_vars

---------------------------------------------------------------------------
(* save() and load() applied to every catalog state of bounded size: the   *)
(* Maps a constructor can build from a data file, whatever wrote it        *)

RT_Titulos == {"El Quijote", "Cien años de soledad"}

RT_LibroIds == {1, 2}

RT_Fechas == {Undefined} \cup {toISOString(t) : t \in Instantes}

RT_Libros ==
    UNION {{[i \in 1..n |->
               [id |-> i, titulo |-> f[i][1], autor |-> "Miguel de Cervantes",
                anio |-> 1605, disponible |-> f[i][2]]] :
            f \in [1..n -> RT_Titulos \X BOOLEAN]} : n \in 0..MaxLibros}

RT_Usuarios ==
    {[i \in 1..n |-> [id |-> i, nombre |-> "Ana Pérez"]] : n \in 0..MaxUsuarios}

RT_Prestamos ==
    UNION {{[i \in 1..n |->
               [id |-> i, libroId |-> f[i][1], usuarioId |-> 1,
                fechaPrestamo |-> toISOString(1), fechaDevolucion |-> f[i][2]]] :
            f \in [1..n -> RT_LibroIds \X RT_Fechas]} : n \in 0..MaxPrestamos}

RT_NextIds ==
    {FreshIds,
     [libro |-> MaxLibros + 1, usuario |-> MaxUsuarios + 1,
      prestamo |-> MaxPrestamos + 1]}

InitRT ==
    /\ libros \in RT_Libros
    /\ usuarios \in RT_Usuarios
    /\ prestamos \in RT_Prestamos
    /\ nextIds \in RT_NextIds
    /\ dataFile = NoFile
    /\ now = 1
    /\ ret = [op |-> "constructor"]
    /\ otra = SinOtra

NextRT ==
    \/ save
    \/ constructor

SpecRT == InitRT /\ [][NextRT]_vars

---------------------------------------------------------------------------
(* A catalog constructed on a snapshot of bounded size, whatever wrote it: *)
(* its loans may name books the snapshot does not hold                     *)

Snap_Libros ==
    UNION {{[i \in 1..n |->
               [id |-> i, titulo |-> "El Quijote", autor |-> "Miguel de Cervantes",
                anio |-> 1605, disponible |-> f[i]]] :
            f \in [1..n -> BOOLEAN]} : n \in 0..MaxLibros}

Snap_NextIds ==
    [libro |-> MaxLibros + 1, usuario |-> MaxUsuarios + 1,
     prestamo |-> MaxPrestamos + 1]

InitSnap ==
    /\ \E L \in Snap_Libros, U \in RT_Usuarios, P \in RT_Prestamos :
          dataFile = Biblioteca_save(L, U, P, Snap_NextIds)
    /\ libros = Biblioteca_load(dataFile).libros
    /\ usuarios = Biblioteca_load(dataFile).usuarios
    /\ prestamos = Biblioteca_load(dataFile).prestamos
    /\ nextIds = Biblioteca_load(dataFile).nextIds
    /\ now = 1
    /\ ret = [op |-> "constructor"]
    /\ otra = SinOtra

\* the data file is damaged between two runs of the program
corromper(c) ==
    /\ dataFile' = c
    /\ ret' = [op |-> "corromper"]
    /\ UNCHANGED <<libros, usuarios, prestamos, nextIds, now, otra>>

NextArchivo ==
    \/ \E c \in Corruptos : corromper(c)
    \/ constructor
    \/ save

SpecArchivo == InitSnap /\ [][NextArchivo]_vars

\* devolverLibro on the catalog of a snapshot
NextSnap == \E p \in PrestamoIdArgs : devolverLibro(p)

SpecSnap == InitSnap /\ [][NextSnap]_vars

---------------------------------------------------------------------------
(* The methods of Libro called on books in either state *)

op_isDisponible(i) ==
    /\ i \in 1..Len(libros)
    /\ ret' = [op |-> "Libro.isDisponible", args |-> <<i>>,
               value |-> Libro_isDisponible(libros[i])]
    /\ UNCHANGED <<libros, usuarios, prestamos, nextIds, dataFile, now, otra>>

op_prestar(i) ==
    /\ i \in 1..Len(libros)
    /\ libros' = [libros EXCEPT ![i] = Libro_prestar(libros[i]).obj]
    /\ ret' = [op |-> "Libro.prestar", args |-> <<i>>,
               value |-> Libro_prestar(libros[i]).ret]
    /\ UNCHANGED <<usuarios, prestamos, nextIds, dataFile, now, otra>>

op_devolver(i) ==
    /\ i \in 1..Len(libros)
    /\ libros' = [libros EXCEPT ![i] = Libro_devolver(libros[i]).obj]
    /\ ret' = [op |-> "Libro.devolver", args |-> <<i>>,
               value |-> Libro_devolver(libros[i]).ret]
    /\ UNCHANGED <<usuarios, prestamos, nextIds, dataFile, now, otra>>

InitLibro ==
    /\ libros \in RT_Libros
    /\ usuarios = <<>>
    /\ prestamos = <<>>
    /\ nextIds = FreshIds
    /\ dataFile = NoFile
    /\ now = 1
    /\ ret = [op |-> "constructor"]
    /\ otra = SinOtra

NextLibro ==
    \/ \E i \in LibroIdArgs : op_isDisponible(i)
    \/ \E i \in LibroIdArgs : op_prestar(i)
    \/ \E i \in LibroIdArgs : op_devolver(i)

SpecLibro == InitLibro /\ [][NextLibro]_vars

---------------------------------------------------------------------------
(* The methods of Prestamo called on loans in either state, with any       *)
(* string as the date of the return                                        *)

FechaArgs == {""} \cup {toISOString(t) : t \in Instantes}

op_isActivo(i) ==
    /\ i \in 1..Len(prestamos)
    /\ ret' = [op |-> "Prestamo.isActivo", args |-> <<i>>,
               value |-> Prestamo_isActivo(prestamos[i])]
    /\ UNCHANGED <<libros, usuarios, prestamos, nextIds, dataFile, now, otra>>

op_Prestamo_devolver(i, fecha) ==
    /\ i \in 1..Len(prestamos)
    /\ prestamos' = [prestamos EXCEPT ![i] = Prestamo_devolver(prestamos[i], fecha).obj]
    /\ ret' = [op |-> "Prestamo.devolver", args |-> <<i, fecha>>,
               value |-> Prestamo_devolver(prestamos[i], fecha).ret]
    /\ UNCHANGED <<libros, usuarios, nextIds, dataFile, now, otra>>

InitPrestamo ==
    /\ libros = <<>>
    /\ usuarios = <<>>
    /\ prestamos \in RT_Prestamos
    /\ nextIds = FreshIds
    /\ dataFile = NoFile
    /\ now = 1
    /\ ret = [op |-> "constructor"]
    /\ otra = SinOtra

NextPrestamo ==
    \/ \E i \in PrestamoIdArgs : op_isActivo(i)
    \/ \E i \in PrestamoIdArgs, fecha \in FechaArgs : op_Prestamo_devolver(i, fecha)

SpecPrestamo == InitPrestamo /\ [][NextPrestamo]_vars

---------------------------------------------------------------------------
(* The four mutating methods when storage.save throws: the exception       *)
(* leaves the method after the fields were changed, and the storage keeps  *)
(* what it held                                                            *)

Throws(op, args) == [op |-> op, args |-> args, throws |-> TRUE]

crearLibro_throws(titulo, autor, anio) ==
    /\ nextIds.libro <= MaxLibros
    /\ LET id    == nextIds.libro
           libro == Libro(id, titulo, autor, anio)
       IN  /\ nextIds' = [nextIds EXCEPT !.libro = id + 1]
           /\ libros' = MapSet(libros, libro)
           /\ ret' = Throws("crearLibro", <<titulo, autor, anio>>)
           /\ UNCHANGED <<usuarios, prestamos, dataFile, now, otra>>

crearUsuario_throws(nombre) ==
    /\ nextIds.usuario <= MaxUsuarios
    /\ LET id      == nextIds.usuario
           usuario == Usuario(id, nombre)
       IN  /\ nextIds' = [nextIds EXCEPT !.usuario = id + 1]
           /\ usuarios' = MapSet(usuarios, usuario)
           /\ ret' = Throws("crearUsuario", <<nombre>>)
           /\ UNCHANGED <<libros, prestamos, dataFile, now, otra>>

\* mutant: the fields are restored when save throws
prestarLibro_throws_rollback(libroId, usuarioId) ==
    /\ prestarLibro_validaciones(libroId, usuarioId) = ""
    /\ nextIds.prestamo <= MaxPrestamos
    /\ ret' = Throws("prestarLibro", <<libroId, usuarioId>>)
    /\ UNCHANGED <<libros, usuarios, prestamos, nextIds, dataFile, now, otra>>

\* save is reached only when the three validations pass
prestarLibro_throws(libroId, usuarioId) ==
    /\ prestarLibro_validaciones(libroId, usuarioId) = ""
    /\ nextIds.prestamo <= MaxPrestamos
    /\ LET id       == nextIds.prestamo
           fecha    == toISOString(now)
           prestamo == Prestamo(id, libroId, usuarioId, fecha, Undefined)
       IN  /\ nextIds' = [nextIds EXCEPT !.prestamo = id + 1]
           /\ libros' = MapSet(libros, Libro_prestar(MapGet(libros, libroId)).obj)
           /\ prestamos' = MapSet(prestamos, prestamo)
           /\ ret' = Throws("prestarLibro", <<libroId, usuarioId>>)
           /\ UNCHANGED <<usuarios, dataFile, now, otra>>

devolverLibro_throws(prestamoId) ==
    /\ devolverLibro_validaciones(prestamoId) = ""
    /\ LET prestamo == MapGet(prestamos, prestamoId)
           libro    == MapGet(libros, prestamo.libroId)
       IN  /\ prestamos' = MapSet(prestamos,
                              Prestamo_devolver(prestamo, toISOString(now)).obj)
           /\ libros' = MapSet(libros, Libro_devolver(libro).obj)
           /\ ret' = Throws("devolverLibro", <<prestamoId>>)
           /\ UNCHANGED <<usuarios, nextIds, dataFile, now, otra>>

\* the fields are what the storage holds: no save has thrown since the last
\* save or load
Guardada ==
    Biblioteca_load(dataFile) = [libros |-> libros, usuarios |-> usuarios,
                                 prestamos |-> prestamos, nextIds |-> nextIds]

\* once a save has thrown, the caller goes on with calls that do not save
\* (lists, estadisticas, a prestarLibro or devolverLibro that is refused) or
\* constructs the Biblioteca again
NextFallo ==
    \/ Guardada /\ \E t \in Titulos, a \in Autores, y \in Anios : crearLibro(t, a, y)
    \/ Guardada /\ \E n \in Nombres : crearUsuario(n)
    \/ \E l \in LibroIdArgs, u \in UsuarioIdArgs :
          /\ Guardada \/ prestarLibro_validaciones(l, u) # ""
          /\ prestarLibro(l, u)
    \/ \E p \in PrestamoIdArgs :
          /\ Guardada \/ devolverLibro_validaciones(p) # ""
          /\ devolverLibro(p)
    \/ Guardada
          /\ \E t \in Titulos, a \in Autores, y \in Anios : crearLibro_throws(t, a, y)
    \/ Guardada /\ \E n \in Nombres : crearUsuario_throws(n)
    \/ Guardada
          /\ \E l \in LibroIdArgs, u \in UsuarioIdArgs : prestarLibro_throws(l, u)
    \/ Guardada /\ \E p \in PrestamoIdArgs : devolverLibro_throws(p)
    \/ estadisticas
    \/ op_listarLibros
    \/ op_listarUsuarios
    \/ \E b \in BOOLEAN : op_listarPrestamos(b)
    \/ constructor

SpecFallo == Init /\ [][NextFallo]_vars

---------------------------------------------------------------------------
(* Two Biblioteca objects constructed on the same storage; one call after  *)
(* another, to either object                                               *)

\* the snapshot both were constructed from: one book, the users, no loan
Dos_Snapshot ==
    Biblioteca_save(<<Libro(1, "El Quijote", "Miguel de Cervantes", 1605)>>,
                    [i \in 1..MaxUsuarios |-> Usuario(i, "Ana Pérez")],
                    <<>>,
                    [libro |-> 2, usuario |-> MaxUsuarios + 1, prestamo |-> 1])

InitDos ==
    /\ dataFile = Dos_Snapshot
    /\ libros = Biblioteca_load(dataFile).libros
    /\ usuarios = Biblioteca_load(dataFile).usuarios
    /\ prestamos = Biblioteca_load(dataFile).prestamos
    /\ nextIds = Biblioteca_load(dataFile).nextIds
    /\ otra = [existe    |-> TRUE,
               nombre    |-> "B",
               libros    |-> Biblioteca_load(dataFile).libros,
               usuarios  |-> Biblioteca_load(dataFile).usuarios,
               prestamos |-> Biblioteca_load(dataFile).prestamos,
               nextIds   |-> Biblioteca_load(dataFile).nextIds]
    /\ now = 1
    /\ ret = [op |-> "constructor"]

\* the next call goes to the other object: its fields become the current
\* ones, and the fields of the object called so far are set aside
cambiar ==
    /\ otra.existe
    /\ libros' = otra.libros
    /\ usuarios' = otra.usuarios
    /\ prestamos' = otra.prestamos
    /\ nextIds' = otra.nextIds
    /\ otra' = [existe    |-> TRUE,
                nombre    |-> IF otra.nombre = "B" THEN "A" ELSE "B",
                libros    |-> libros,
                usuarios  |-> usuarios,
                prestamos |-> prestamos,
                nextIds   |-> nextIds]
    /\ ret' = [op |-> "cambiar"]
    /\ UNCHANGED <<dataFile, now>>

NextDos ==
    \/ \E l \in LibroIdArgs, u \in UsuarioIdArgs : prestarLibro(l, u)
    \/ \E p \in PrestamoIdArgs : devolverLibro(p)
    \/ cambiar

SpecDos == InitDos /\ [][NextDos]_vars

---------------------------------------------------------------------------
(* Properties of prestarLibro and devolverLibro *)

\* the in-memory state a restart on the file f builds
Persisted(f, L, U, P, N) ==
    Biblioteca_load(f) = [libros |-> L, usuarios |-> U, prestamos |-> P,
                          nextIds |-> N]

\* C1: prestarLibro on an existing book that is not available, with an
\* existing user, returns ok = false with 'Libro no disponible' and leaves
\* the books, the loans, the counters and the file unchanged.
C1_PrestarNoDisponible ==
    [][\A l \in LibroIdArgs, u \in UsuarioIdArgs :
         ( /\ prestarLibro(l, u)
           /\ MapHas(libros, l) /\ MapHas(usuarios, u)
           /\ ~MapGet(libros, l).disponible )
         => /\ ret'.ok = FALSE
            /\ ret'.mensaje = "Libro no disponible"
            /\ "prestamo" \notin DOMAIN ret'
            /\ UNCHANGED <<libros, prestamos, nextIds, dataFile>>]_vars

C1_Witness ==
    /\ ret.op = "prestarLibro"
    /\ ret.ok = FALSE /\ ret.mensaje = "Libro no disponible"
    /\ MapHas(libros, ret.args[1]) /\ MapHas(usuarios, ret.args[2])
    /\ ~MapGet(libros, ret.args[1]).disponible

\* C2: prestarLibro on an existing available book and an existing user
\* returns ok = true with a new active loan whose id is the loan counter
\* before the call and whose libroId and usuarioId are the arguments; after
\* the call the book is not available, the loan is stored under its id, the
\* counter is one greater, and the file holds the loan and the book as not
\* available.
C2_PrestarExito ==
    [][\A l \in LibroIdArgs, u \in UsuarioIdArgs :
         ( /\ prestarLibro(l, u)
           /\ MapHas(libros, l) /\ MapHas(usuarios, u)
           /\ MapGet(libros, l).disponible )
         => /\ ret'.ok = TRUE
            /\ ret'.prestamo.id = nextIds.prestamo
            /\ ret'.prestamo.libroId = l
            /\ ret'.prestamo.usuarioId = u
            /\ ret'.prestamo.fechaDevolucion = Undefined
            /\ Prestamo_isActivo(ret'.prestamo)
            /\ MapHas(libros', l) /\ ~MapGet(libros', l).disponible
            /\ MapHas(prestamos', nextIds.prestamo)
            /\ MapGet(prestamos', nextIds.prestamo) = ret'.prestamo
            /\ nextIds'.prestamo = nextIds.prestamo + 1
            /\ dataFile'.exists
            /\ \E i \in 1..Len(dataFile'.json.prestamos) :
                  LET o == dataFile'.json.prestamos[i]
                  IN  /\ o.id = nextIds.prestamo
                      /\ o.libroId = l /\ o.usuarioId = u
                      /\ "fechaDevolucion" \notin DOMAIN o
            /\ \E i \in 1..Len(dataFile'.json.libros) :
                  /\ dataFile'.json.libros[i].id = l
                  /\ dataFile'.json.libros[i].disponible = FALSE]_vars

C2_Witness ==
    /\ ret.op = "prestarLibro" /\ ret.ok = TRUE
    /\ ret.prestamo.id = 2
    /\ MapGet(prestamos, 2) = ret.prestamo
    /\ ~MapGet(libros, ret.args[1]).disponible

\* C3: prestarLibro checks book-exists, then user-exists, then
\* book-available, and the first failing check decides the result; a failing
\* call creates no loan, advances no counter, changes no book and writes
\* nothing to the file.
C3_PrestarOrden ==
    [][\A l \in LibroIdArgs, u \in UsuarioIdArgs :
         prestarLibro(l, u)
         => /\ ~MapHas(libros, l)
                => ret'.ok = FALSE /\ ret'.mensaje = "Libro no encontrado"
            /\ (MapHas(libros, l) /\ ~MapHas(usuarios, u))
                => ret'.ok = FALSE /\ ret'.mensaje = "Usuario no encontrado"
            /\ (MapHas(libros, l) /\ MapHas(usuarios, u)
                    /\ ~MapGet(libros, l).disponible)
                => ret'.ok = FALSE /\ ret'.mensaje = "Libro no disponible"
            /\ ret'.ok = FALSE
                => UNCHANGED <<libros, usuarios, prestamos, nextIds, dataFile>>]_vars

C3_Witness ==
    /\ ret.op = "prestarLibro"
    /\ ret.ok = FALSE /\ ret.mensaje = "Usuario no encontrado"
    /\ MapHas(libros, ret.args[1]) /\ ~MapHas(usuarios, ret.args[2])
    /\ ~MapGet(libros, ret.args[1]).disponible

\* C4: devolverLibro on an active loan whose book exists returns ok = true;
\* afterwards the loan has a fechaDevolucion and is not active, its book is
\* available, no other loan or book is changed, and the new state is the
\* one the file holds.
C4_DevolverExito ==
    [][\A p \in PrestamoIdArgs :
         ( /\ devolverLibro(p)
           /\ MapHas(prestamos, p)
           /\ MapGet(prestamos, p).fechaDevolucion = Undefined
           /\ MapHas(libros, MapGet(prestamos, p).libroId) )
         => /\ ret'.ok = TRUE
            /\ MapGet(prestamos', p).fechaDevolucion = toISOString(now)
            /\ ~Prestamo_isActivo(MapGet(prestamos', p))
            /\ MapGet(libros', MapGet(prestamos, p).libroId).disponible
            /\ Len(prestamos') = Len(prestamos)
            /\ \A i \in 1..Len(prestamos) :
                  IF prestamos[i].id = p
                  THEN prestamos'[i] =
                         [prestamos[i] EXCEPT !.fechaDevolucion = toISOString(now)]
                  ELSE prestamos'[i] = prestamos[i]
            /\ Len(libros') = Len(libros)
            /\ \A i \in 1..Len(libros) :
                  IF libros[i].id = MapGet(prestamos, p).libroId
                  THEN libros'[i] = [libros[i] EXCEPT !.disponible = TRUE]
                  ELSE libros'[i] = libros[i]
            /\ UNCHANGED <<usuarios, nextIds>>
            /\ dataFile'.exists
            /\ Persisted(dataFile', libros', usuarios', prestamos', nextIds')]_vars

C4_Witness ==
    /\ ret.op = "devolverLibro" /\ ret.ok = TRUE
    /\ MapGet(prestamos, ret.args[1]).fechaDevolucion # Undefined
    /\ MapGet(libros, MapGet(prestamos, ret.args[1]).libroId).disponible
    /\ \E i \in 1..Len(prestamos) : prestamos[i].fechaDevolucion = Undefined

\* C5: devolverLibro on a loan that was returned already gives ok = false
\* with 'Ya devuelto' and changes nothing: the loan keeps its
\* fechaDevolucion and the book keeps its availability, also when the book
\* is on loan again under a newer active loan.
C5_DevolverYaDevuelto ==
    [][\A p \in PrestamoIdArgs :
         ( /\ devolverLibro(p)
           /\ MapHas(prestamos, p)
           /\ MapGet(prestamos, p).fechaDevolucion # Undefined )
         => /\ ret'.ok = FALSE
            /\ ret'.mensaje = "Ya devuelto"
            /\ UNCHANGED <<libros, usuarios, prestamos, nextIds, dataFile>>]_vars

C5_Witness ==
    /\ ret.op = "devolverLibro"
    /\ ret.ok = FALSE /\ ret.mensaje = "Ya devuelto"
    /\ MapGet(prestamos, ret.args[1]).fechaDevolucion # Undefined
    /\ ~MapGet(libros, MapGet(prestamos, ret.args[1]).libroId).disponible
    /\ \E i \in 1..Len(prestamos) :
          /\ prestamos[i].libroId = MapGet(prestamos, ret.args[1]).libroId
          /\ prestamos[i].id > ret.args[1]
          /\ prestamos[i].fechaDevolucion = Undefined

\* C6: devolverLibro with an id that is not in the loan collection returns
\* ok = false with 'Préstamo no encontrado' and leaves the books, users,
\* loans, counters and the file unchanged.
C6_DevolverNoEncontrado ==
    [][\A p \in PrestamoIdArgs :
         (devolverLibro(p) /\ p \notin MapKeys(prestamos))
         => /\ ret'.ok = FALSE
            /\ ret'.mensaje = "Préstamo no encontrado"
            /\ UNCHANGED <<libros, usuarios, prestamos, nextIds, dataFile>>]_vars

C6_Witness ==
    /\ ret.op = "devolverLibro"
    /\ ret.ok = FALSE /\ ret.mensaje = "Préstamo no encontrado"
    /\ ret.args[1] \notin MapKeys(prestamos)
    /\ Len(prestamos) > 0

---------------------------------------------------------------------------
(* Properties of the loan state, of persistence and of the statistics *)

C8_Durabilidad ==
    ( \/ ret.op \in {"crearLibro", "crearUsuario"}
      \/ (ret.op \in {"prestarLibro", "devolverLibro"} /\ ret.ok) )
    => /\ dataFile.exists
       /\ dataFile = Biblioteca_save(libros, usuarios, prestamos, nextIds)
       /\ Persisted(dataFile, libros, usuarios, prestamos, nextIds)

C8_Witness ==
    /\ ret.op = "devolverLibro" /\ ret.ok
    /\ \E i \in 1..Len(prestamos) : prestamos[i].fechaDevolucion = Undefined
    /\ \E i \in 1..Len(libros) : ~libros[i].disponible
    /\ Persisted(dataFile, libros, usuarios, prestamos, nextIds)

\* C9: for every catalog state, save() followed by the load() of a new
\* catalog gives Maps with the same field values per entity (the disponible
\* flag of a book and the absent or present fechaDevolucion of a loan among
\* them) and the same counters.
C9_RoundTrip ==
    [][(constructor /\ ret.op = "save")
         => UNCHANGED <<libros, usuarios, prestamos, nextIds>>]_vars

C9_Witness ==
    /\ ret.op = "constructor"
    /\ dataFile.exists
    /\ Len(libros) = MaxLibros /\ Len(prestamos) = MaxPrestamos
    /\ \E i \in 1..Len(libros) : ~libros[i].disponible
    /\ \E i \in 1..Len(libros) : libros[i].disponible
    /\ \E i \in 1..Len(prestamos) : prestamos[i].fechaDevolucion = Undefined
    /\ \E i \in 1..Len(prestamos) : prestamos[i].fechaDevolucion # Undefined
    /\ nextIds # FreshIds

\* C10: in every state estadisticas() gives totalLibros = the number of
\* books, disponibles = the number of available books (at most
\* totalLibros) and prestamosActivos = the length of listarPrestamos(true);
\* listarPrestamos(true) is exactly the active loans and
\* listarPrestamos(false) is every loan; the value a call returned is the
\* one of the state the last mutation left.
StatsOfState ==
    [totalLibros      |-> Cardinality(MapKeys(libros)),
     disponibles      |-> Cardinality({i \in 1..Len(libros) : libros[i].disponible}),
     prestamosActivos |-> Cardinality({i \in 1..Len(prestamos) :
                                        prestamos[i].fechaDevolucion = Undefined})]

C10_Estadisticas ==
    /\ estadisticas_value = StatsOfState
    /\ estadisticas_value.disponibles <= estadisticas_value.totalLibros
    /\ estadisticas_value.prestamosActivos = Len(listarPrestamos(TRUE))
    /\ listarPrestamos(FALSE) = prestamos
    /\ \A i \in 1..Len(prestamos) :
          (\E j \in 1..Len(listarPrestamos(TRUE)) :
              listarPrestamos(TRUE)[j] = prestamos[i])
            <=> prestamos[i].fechaDevolucion = Undefined
    /\ \A j \in 1..Len(listarPrestamos(TRUE)) :
          /\ MapHas(prestamos, listarPrestamos(TRUE)[j].id)
          /\ MapGet(prestamos, listarPrestamos(TRUE)[j].id) = listarPrestamos(TRUE)[j]
    /\ ret.op = "estadisticas" => ret.value = StatsOfState

C10_Witness ==
    /\ ret.op = "estadisticas"
    /\ ret.value = [totalLibros |-> 2, disponibles |-> 1, prestamosActivos |-> 1]
    /\ Len(prestamos) = 2

---------------------------------------------------------------------------
(* The end-to-end scenario *)

\* the in-memory states the scenario passes through (dates and the
\* descriptive fields are free)
E2E_Vacia ==
    /\ libros = <<>> /\ usuarios = <<>> /\ prestamos = <<>>
    /\ nextIds = [libro |-> 1, usuario |-> 1, prestamo |-> 1]

E2E_UnLibro(disponible) ==
    /\ Len(libros) = 1
    /\ libros[1].id = 1
    /\ libros[1].disponible = disponible
    /\ nextIds.libro = 2

E2E_ConLibro ==
    /\ E2E_UnLibro(TRUE)
    /\ usuarios = <<>> /\ prestamos = <<>>
    /\ nextIds.usuario = 1 /\ nextIds.prestamo = 1

E2E_UnUsuario ==
    /\ Len(usuarios) = 1 /\ usuarios[1].id = 1 /\ nextIds.usuario = 2

E2E_ConUsuario ==
    /\ E2E_UnLibro(TRUE) /\ E2E_UnUsuario
    /\ prestamos = <<>> /\ nextIds.prestamo = 1

E2E_UnPrestamo ==
    /\ Len(prestamos) = 1
    /\ prestamos[1].id = 1
    /\ prestamos[1].libroId = 1 /\ prestamos[1].usuarioId = 1
    /\ nextIds.prestamo = 2

E2E_Prestado ==
    /\ E2E_UnLibro(FALSE) /\ E2E_UnUsuario /\ E2E_UnPrestamo
    /\ prestamos[1].fechaDevolucion = Undefined

E2E_Devuelto ==
    /\ E2E_UnLibro(TRUE) /\ E2E_UnUsuario /\ E2E_UnPrestamo
    /\ prestamos[1].fechaDevolucion # Undefined
    /\ ~Prestamo_isActivo(prestamos[1])

\* C11: from the empty catalog, crearLibro gives book 1, available;
\* crearUsuario gives user 1; prestarLibro(1, 1) gives ok = true with loan 1
\* and book 1 not available; prestarLibro(1, 1) again gives ok = false
\* 'Libro no disponible'; devolverLibro(1) gives ok = true with book 1
\* available and loan 1 not active; devolverLibro(1) again gives ok = false
\* 'Ya devuelto'; estadisticas() is then {1, 1, 0}.
C11_Escenario ==
    /\ E2E_Vacia
    /\ [][ /\ \A t \in Titulos, a \in Autores, y \in Anios :
                (E2E_Vacia /\ crearLibro(t, a, y))
                => /\ E2E_ConLibro'
                   /\ ret'.libro.id = 1 /\ ret'.libro.disponible
           /\ \A n \in Nombres :
                (E2E_ConLibro /\ crearUsuario(n))
                => E2E_ConUsuario' /\ ret'.usuario.id = 1
           /\ (E2E_ConUsuario /\ prestarLibro(1, 1))
                => /\ E2E_Prestado'
                   /\ ret'.ok = TRUE /\ ret'.prestamo.id = 1
           /\ (E2E_Prestado /\ prestarLibro(1, 1))
                => /\ E2E_Prestado'
                   /\ ret'.ok = FALSE /\ ret'.mensaje = "Libro no disponible"
           /\ (E2E_Prestado /\ devolverLibro(1))
                => E2E_Devuelto' /\ ret'.ok = TRUE
           /\ (E2E_Devuelto /\ devolverLibro(1))
                => /\ E2E_Devuelto'
                   /\ ret'.ok = FALSE /\ ret'.mensaje = "Ya devuelto"
           /\ (E2E_Devuelto /\ estadisticas)
                => ret'.value = [totalLibros |-> 1, disponibles |-> 1,
                                 prestamosActivos |-> 0] ]_vars

C11_Witness ==
    /\ ret.op = "estadisticas"
    /\ E2E_Devuelto
    /\ ret.value = [totalLibros |-> 1, disponibles |-> 1, prestamosActivos |-> 0]

---------------------------------------------------------------------------
(* Properties of creation and of the id counters *)

IdsBelow(m, c) ==
    /\ \A i \in 1..Len(m) : m[i].id < c
    /\ MapKeys(m) = 1 .. (c - 1)
    /\ Cardinality(MapKeys(m)) = Len(m)

---------------------------------------------------------------------------
(* Properties of construction *)

\* C14: when the storage has no snapshot (load() returns null), the
\* constructed catalog has empty Maps and the three counters at 1, and the
\* constructor does not write to the storage.
C14_SinDatos ==
    [][constructor
         => /\ dataFile' = dataFile
            /\ ~dataFile.exists
                 => /\ JsonStorageAdapter_load(dataFile).isNull
                    /\ libros' = <<>> /\ usuarios' = <<>> /\ prestamos' = <<>>
                    /\ nextIds' = [libro |-> 1, usuario |-> 1, prestamo |-> 1]]_vars

C14_Witness ==
    /\ ret.op = "constructor"
    /\ ~dataFile.exists
    /\ libros = <<>> /\ usuarios = <<>> /\ prestamos = <<>>
    /\ nextIds = [libro |-> 1, usuario |-> 1, prestamo |-> 1]

---------------------------------------------------------------------------
(* Failures are results, not exceptions *)

C15_Mensajes ==
    {"Libro no encontrado", "Usuario no encontrado", "Libro no disponible",
     "Préstamo no encontrado", "Ya devuelto", "Libro inexistente"}

\* C15: with a storage whose save does not fail, prestarLibro and
\* devolverLibro complete for every argument in every reachable state; a
\* missing book, user or loan, a book on loan and a loan returned already give
\* ok = false with a message, no prestamo in the result and no change; ok =
\* true is returned only together with the change of state.
C15_SinExcepciones ==
    /\ [](\A l \in LibroIdArgs, u \in UsuarioIdArgs :
            nextIds.prestamo <= MaxPrestamos => ENABLED prestarLibro(l, u))
    /\ [](\A p \in PrestamoIdArgs : ENABLED devolverLibro(p))
    /\ [][/\ \A l \in LibroIdArgs, u \in UsuarioIdArgs :
               prestarLibro(l, u)
               => /\ ret'.ok \in BOOLEAN
                  /\ ( \/ ~MapHas(libros, l)
                       \/ ~MapHas(usuarios, u)
                       \/ \E i \in 1..Len(libros) :
                            libros[i].id = l /\ ~libros[i].disponible )
                       => ~ret'.ok
                  /\ ~ret'.ok
                       => /\ ret'.mensaje \in C15_Mensajes
                          /\ "prestamo" \notin DOMAIN ret'
                          /\ UNCHANGED <<mem, dataFile>>
                  /\ ret'.ok
                       => /\ "prestamo" \in DOMAIN ret'
                          /\ ~MapHas(prestamos, ret'.prestamo.id)
                          /\ MapHas(prestamos', ret'.prestamo.id)
                          /\ MapGet(prestamos', ret'.prestamo.id) = ret'.prestamo
                          /\ MapGet(libros, l).disponible
                          /\ ~MapGet(libros', l).disponible
                          /\ Persisted(dataFile', libros', usuarios',
                                       prestamos', nextIds')
          /\ \A p \in PrestamoIdArgs :
               devolverLibro(p)
               => /\ ret'.ok \in BOOLEAN
                  /\ ( \/ ~MapHas(prestamos, p)
                       \/ \E i \in 1..Len(prestamos) :
                            /\ prestamos[i].id = p
                            /\ \/ prestamos[i].fechaDevolucion # Undefined
                               \/ ~MapHas(libros, prestamos[i].libroId) )
                       => ~ret'.ok
                  /\ ~ret'.ok
                       => /\ ret'.mensaje \in C15_Mensajes
                          /\ "prestamo" \notin DOMAIN ret'
                          /\ UNCHANGED <<mem, dataFile>>
                  /\ ret'.ok
                       => /\ MapGet(prestamos, p).fechaDevolucion = Undefined
                          /\ MapGet(prestamos', p).fechaDevolucion # Undefined
                          /\ ~MapGet(libros, MapGet(prestamos, p).libroId).disponible
                          /\ MapGet(libros', MapGet(prestamos, p).libroId).disponible
                          /\ Persisted(dataFile', libros', usuarios',
                                       prestamos', nextIds')]_vars

C15_Witness ==
    /\ ret.op = "devolverLibro"
    /\ ret.args = <<MaxPrestamos + 1>>
    /\ ~ret.ok
    /\ ret.mensaje = "Préstamo no encontrado"
    /\ Len(prestamos) = MaxPrestamos

\* C16: load() of the file adapter returns null when the file does not exist
\* and when reading or parsing it throws, and a Biblioteca constructed on
\* such a file has empty Maps and the three counters at 1.
C16_Corrupto ==
    /\ [](\A f \in {NoFile} \cup Corruptos : JsonStorageAdapter_load(f).isNull)
    /\ [][( /\ constructor
            /\ dataFile \in {NoFile} \cup Corruptos )
          => /\ JsonStorageAdapter_load(dataFile).isNull
             /\ libros' = <<>> /\ usuarios' = <<>> /\ prestamos' = <<>>
             /\ nextIds' = [libro |-> 1, usuario |-> 1, prestamo |-> 1]
             /\ dataFile' = dataFile]_vars

C16_Witness ==
    /\ ret.op = "constructor"
    /\ dataFile \in Corruptos
    /\ "raw" \in DOMAIN dataFile
    /\ libros = <<>> /\ usuarios = <<>> /\ prestamos = <<>>
    /\ nextIds = [libro |-> 1, usuario |-> 1, prestamo |-> 1]

---------------------------------------------------------------------------
(* What changes the availability of a book *)

\* the books already in the catalog whose availability the step changes
C17_Cambiados ==
    {i \in 1..Len(libros) :
        \/ i > Len(libros')
        \/ libros'[i].id # libros[i].id
        \/ libros'[i].disponible # libros[i].disponible}

\* C17: no step changes the availability of an existing book except a
\* successful prestarLibro, which changes only the book named (true to
\* false), and a successful devolverLibro, which changes only the book of the
\* returned loan (false to true); crearLibro, crearUsuario, the three lists,
\* estadisticas and every failing prestarLibro or devolverLibro change none.
C17_Disponibilidad ==
    [][/\ \A i \in C17_Cambiados :
            /\ i <= Len(libros') /\ libros'[i].id = libros[i].id
            /\ \/ /\ \E u \in UsuarioIdArgs : prestarLibro(libros[i].id, u)
                  /\ ret'.ok
                  /\ libros[i].disponible /\ ~libros'[i].disponible
               \/ /\ \E p \in PrestamoIdArgs :
                        /\ devolverLibro(p)
                        /\ \E k \in 1..Len(prestamos) :
                              /\ prestamos[k].id = p
                              /\ prestamos[k].libroId = libros[i].id
                  /\ ret'.ok
                  /\ ~libros[i].disponible /\ libros'[i].disponible
       /\ \A l \in LibroIdArgs, u \in UsuarioIdArgs :
            prestarLibro(l, u)
            => IF ret'.ok
               THEN C17_Cambiados = {i \in 1..Len(libros) : libros[i].id = l}
               ELSE C17_Cambiados = {}
       /\ \A p \in PrestamoIdArgs :
            devolverLibro(p)
            => IF ret'.ok
               THEN C17_Cambiados =
                      {i \in 1..Len(libros) :
                          \E k \in 1..Len(prestamos) :
                             /\ prestamos[k].id = p
                             /\ prestamos[k].libroId = libros[i].id}
               ELSE C17_Cambiados = {}
       /\ ( \/ \E t \in Titulos, a \in Autores, y \in Anios : crearLibro(t, a, y)
            \/ \E n \in Nombres : crearUsuario(n)
            \/ ret'.op = "listarLibros" /\ op_listarLibros
            \/ ret'.op = "listarUsuarios" /\ op_listarUsuarios
            \/ ret'.op = "listarPrestamos"
                 /\ \E b \in BOOLEAN : op_listarPrestamos(b)
            \/ ret'.op = "estadisticas" /\ estadisticas
            \/ constructor )
            => C17_Cambiados = {}]_vars

C17_Witness ==
    /\ ret.op = "listarLibros"
    /\ \E i \in 1..Len(libros), j \in 1..Len(libros) :
          /\ ~libros[i].disponible
          /\ libros[j].disponible
          /\ ret.value[i] = libros[i]

---------------------------------------------------------------------------
(* The two states of a Libro *)

\* C18: prestar() on an available book returns true and makes it not
\* available; on a book that is not available it returns false and changes
\* nothing, so a second prestar() in a row returns false; devolver() on a
\* book that is not available returns true and makes it available; on an
\* available book it returns false and changes nothing. Both calls complete
\* in either state, and isDisponible() reads the flag.
C18_Libro ==
    /\ [](\A i \in 1..Len(libros) : ENABLED op_prestar(i) /\ ENABLED op_devolver(i))
    /\ [][\A i \in LibroIdArgs :
            /\ ( ret'.op = "Libro.prestar" /\ op_prestar(i) )
                 => /\ ret'.value = libros[i].disponible
                    /\ ~libros'[i].disponible
                    /\ libros[i].disponible
                         => libros' = [libros EXCEPT ![i].disponible = FALSE]
                    /\ ~libros[i].disponible => libros' = libros
                    /\ ( ret.op = "Libro.prestar" /\ ret.args = <<i>> )
                         => ret'.value = FALSE
            /\ ( ret'.op = "Libro.devolver" /\ op_devolver(i) )
                 => /\ ret'.value = ~libros[i].disponible
                    /\ libros'[i].disponible
                    /\ ~libros[i].disponible
                         => libros' = [libros EXCEPT ![i].disponible = TRUE]
                    /\ libros[i].disponible => libros' = libros
                    /\ ( ret.op = "Libro.devolver" /\ ret.args = <<i>> )
                         => ret'.value = FALSE
            /\ ( ret'.op = "Libro.isDisponible" /\ op_isDisponible(i) )
                 => /\ ret'.value = libros[i].disponible
                    /\ libros' = libros]_vars

\* a second prestar() in a row has returned false
C18_Witness ==
    /\ ret.op = "Libro.prestar"
    /\ ret.value = FALSE
    /\ ~libros[ret.args[1]].disponible
    /\ \E j \in 1..Len(libros) : libros[j].disponible

---------------------------------------------------------------------------
(* The two states of a Prestamo *)

\* C19: for every string passed as the date, devolver(fecha) on a loan
\* without fechaDevolucion sets it to fecha and returns true, and isActivo()
\* is false afterwards; on a loan that was returned it returns false and
\* changes nothing, so a second devolver() in a row returns false; and
\* isActivo() is true exactly when fechaDevolucion is not set.
C19_Prestamo ==
    [][\A i \in PrestamoIdArgs :
         /\ \A fecha \in FechaArgs :
              ( ret'.op = "Prestamo.devolver" /\ op_Prestamo_devolver(i, fecha) )
              => /\ IF prestamos[i].fechaDevolucion = Undefined
                    THEN /\ ret'.value = TRUE
                         /\ prestamos' = [prestamos EXCEPT ![i].fechaDevolucion = fecha]
                         /\ ~Prestamo_isActivo(prestamos'[i])
                    ELSE /\ ret'.value = FALSE
                         /\ prestamos' = prestamos
                 /\ ( ret.op = "Prestamo.devolver" /\ ret.args[1] = i )
                      => ret'.value = FALSE
         /\ ( ret'.op = "Prestamo.isActivo" /\ op_isActivo(i) )
              => ret'.value = (prestamos[i].fechaDevolucion = Undefined)]_vars

---------------------------------------------------------------------------
(* A loan whose book is not in the catalog *)

\* C20: devolverLibro on a loan without fechaDevolucion whose libroId is not
\* in libros returns ok = false with 'Libro inexistente' and changes neither
\* the Maps, the counters nor the file, so the loan stays active; the two
\* earlier checks come first: an unknown loan gives 'Préstamo no encontrado'
\* and a returned loan gives 'Ya devuelto' even when its book is missing.
C20_LibroInexistente ==
    [][\A p \in PrestamoIdArgs :
         devolverLibro(p)
         => /\ ~MapHas(prestamos, p) => ret'.mensaje = "Préstamo no encontrado"
            /\ \A k \in 1..Len(prestamos) :
                 ( /\ prestamos[k].id = p
                   /\ ~MapHas(libros, prestamos[k].libroId) )
                 => /\ ~ret'.ok
                    /\ ret'.mensaje = IF prestamos[k].fechaDevolucion = Undefined
                                      THEN "Libro inexistente"
                                      ELSE "Ya devuelto"
                    /\ prestamos'[k] = prestamos[k]
                    /\ UNCHANGED <<libros, usuarios, prestamos, nextIds, dataFile>>]_vars

C20_Witness ==
    /\ ret.op = "devolverLibro"
    /\ ~ret.ok
    /\ ret.mensaje = "Libro inexistente"
    /\ \E k \in 1..Len(prestamos) :
          /\ prestamos[k].id = ret.args[1]
          /\ prestamos[k].fechaDevolucion = Undefined
          /\ ~MapHas(libros, prestamos[k].libroId)
    /\ Persisted(dataFile, libros, usuarios, prestamos, nextIds)

---------------------------------------------------------------------------
(* One call after another on one Biblioteca *)

---------------------------------------------------------------------------
(* The life of a book, a user and a loan *)

---------------------------------------------------------------------------
(* The storage fails to save *)

\* C23: when storage.save throws in crearLibro, crearUsuario, prestarLibro
\* or devolverLibro, the caller gets the exception and no { ok, mensaje }
\* result; the fields keep the change made before save (the new entity, the
\* flag of the book, the date of the loan, the counter) and the storage keeps
\* the snapshot it held, which is no longer the state in memory.
C23_FalloAlGuardar ==
    [][/\ \A t \in Titulos, a \in Autores, y \in Anios :
            crearLibro_throws(t, a, y)
            => /\ ret'.throws /\ "ok" \notin DOMAIN ret'
               /\ dataFile' = dataFile
               /\ nextIds'.libro = nextIds.libro + 1
               /\ ~MapHas(libros, nextIds.libro)
               /\ MapHas(libros', nextIds.libro)
               /\ ~Persisted(dataFile', libros', usuarios', prestamos', nextIds')
       /\ \A n \in Nombres :
            crearUsuario_throws(n)
            => /\ ret'.throws /\ "ok" \notin DOMAIN ret'
               /\ dataFile' = dataFile
               /\ nextIds'.usuario = nextIds.usuario + 1
               /\ ~MapHas(usuarios, nextIds.usuario)
               /\ MapHas(usuarios', nextIds.usuario)
               /\ ~Persisted(dataFile', libros', usuarios', prestamos', nextIds')
       /\ \A l \in LibroIdArgs, u \in UsuarioIdArgs :
            prestarLibro_throws(l, u)
            => /\ ret'.throws /\ "ok" \notin DOMAIN ret'
               /\ dataFile' = dataFile
               /\ nextIds'.prestamo = nextIds.prestamo + 1
               /\ MapHas(prestamos', nextIds.prestamo)
               /\ MapGet(prestamos', nextIds.prestamo).libroId = l
               /\ MapGet(prestamos', nextIds.prestamo).fechaDevolucion = Undefined
               /\ MapGet(libros, l).disponible
               /\ ~MapGet(libros', l).disponible
               /\ ~Persisted(dataFile', libros', usuarios', prestamos', nextIds')
       /\ \A p \in PrestamoIdArgs :
            devolverLibro_throws(p)
            => /\ ret'.throws /\ "ok" \notin DOMAIN ret'
               /\ dataFile' = dataFile
               /\ MapGet(prestamos, p).fechaDevolucion = Undefined
               /\ MapGet(prestamos', p).fechaDevolucion = toISOString(now)
               /\ MapGet(libros', MapGet(prestamos, p).libroId).disponible
               /\ ~Persisted(dataFile', libros', usuarios', prestamos', nextIds')]_vars

\* prestarLibro has thrown: the book is on loan in memory and available in
\* the snapshot
C23_Witness ==
    /\ ret.op = "prestarLibro"
    /\ "throws" \in DOMAIN ret
    /\ ~MapGet(libros, ret.args[1]).disponible
    /\ dataFile.exists
    /\ \E i \in 1..Len(dataFile.json.libros) :
          /\ dataFile.json.libros[i].id = ret.args[1]
          /\ dataFile.json.libros[i].disponible
    /\ dataFile.json.prestamos = <<>>
    /\ Len(prestamos) = 1

---------------------------------------------------------------------------
(* Invariants of the catalog that starts empty *)

\* the loans without fechaDevolucion that name the book
C24_Activos(libroId) ==
    {k \in 1..Len(prestamos) :
        /\ prestamos[k].libroId = libroId
        /\ prestamos[k].fechaDevolucion = Undefined}

\* C24: in every reachable state each book has at most one active loan, and
\* it is not available exactly when it has one.
C24_SinDoblePrestamo ==
    \A i \in 1..Len(libros) :
        /\ Cardinality(C24_Activos(libros[i].id)) <= 1
        /\ ~libros[i].disponible <=> Cardinality(C24_Activos(libros[i].id)) = 1
        /\ Libro_isDisponible(libros[i]) <=> C24_Activos(libros[i].id) = {}

\* a book lent for the second time, its first loan returned
C24_Witness ==
    \E i \in 1..Len(libros) :
        /\ ~libros[i].disponible
        /\ Cardinality(C24_Activos(libros[i].id)) = 1
        /\ \E k \in 1..Len(prestamos) :
              /\ prestamos[k].libroId = libros[i].id
              /\ prestamos[k].fechaDevolucion # Undefined

\* C25: in every reachable state the value of estadisticas() has
\* totalLibros = disponibles + prestamosActivos: the books that are not
\* available are as many as the active loans.
C25_Balance ==
    /\ estadisticas_value.totalLibros
         = estadisticas_value.disponibles + estadisticas_value.prestamosActivos
    /\ Cardinality({i \in 1..Len(libros) : ~libros[i].disponible})
         = Cardinality({k \in 1..Len(prestamos) :
                           prestamos[k].fechaDevolucion = Undefined})
    /\ ret.op = "estadisticas"
         => ret.value.totalLibros
              = ret.value.disponibles + ret.value.prestamosActivos

C25_Witness ==
    /\ ret.op = "estadisticas"
    /\ ret.value = estadisticas_value
    /\ ret.value.disponibles >= 1
    /\ ret.value.prestamosActivos >= 1
    /\ Len(prestamos) > ret.value.prestamosActivos

\* C26: in every reachable state the libroId of every loan is the id of a
\* book and its usuarioId the id of a user, so devolverLibro never answers
\* 'Libro inexistente'.
C26_Integridad ==
    /\ \A k \in 1..Len(prestamos) :
          /\ MapHas(libros, prestamos[k].libroId)
          /\ MapHas(usuarios, prestamos[k].usuarioId)
    /\ \A p \in PrestamoIdArgs : devolverLibro_validaciones(p) # "Libro inexistente"
    /\ ~( /\ ret.op = "devolverLibro"
          /\ "mensaje" \in DOMAIN ret
          /\ ret.mensaje = "Libro inexistente" )

\* after a restart, a loan of the last book created
C26_Witness ==
    /\ ret.op = "constructor"
    /\ Len(libros) = MaxLibros
    /\ \E k \in 1..Len(prestamos) :
          /\ prestamos[k].libroId = MaxLibros
          /\ prestamos[k].fechaDevolucion = Undefined

---------------------------------------------------------------------------
(* When the storage is written *)

\* this step is a call that returned { ok: true } or a created entity
C27_Exito ==
    \/ \E t \in Titulos, a \in Autores, y \in Anios : crearLibro(t, a, y)
    \/ \E n \in Nombres : crearUsuario(n)
    \/ /\ ret'.op = "prestarLibro" /\ "ok" \in DOMAIN ret' /\ ret'.ok
       /\ \E l \in LibroIdArgs, u \in UsuarioIdArgs : prestarLibro(l, u)
    \/ /\ ret'.op = "devolverLibro" /\ "ok" \in DOMAIN ret' /\ ret'.ok
       /\ \E p \in PrestamoIdArgs : devolverLibro(p)

\* C27: save() runs in crearLibro, crearUsuario and in a prestarLibro or
\* devolverLibro that succeeds, after the fields were changed, so that the
\* snapshot written is the new state; a failing prestarLibro or
\* devolverLibro, the three lists and estadisticas do not write, even when
\* the state in memory is not the one stored; and the snapshot changes in
\* no other step.
C27_Guardado ==
    [][/\ C27_Exito
            => /\ dataFile' = Biblioteca_save(libros', usuarios', prestamos', nextIds')
               /\ dataFile' # dataFile
               /\ Persisted(dataFile', libros', usuarios', prestamos', nextIds')
       /\ dataFile' # dataFile => C27_Exito
       /\ ( \/ /\ ret'.op \in {"prestarLibro", "devolverLibro"}
               /\ "ok" \in DOMAIN ret' /\ ~ret'.ok
               /\ \/ \E l \in LibroIdArgs, u \in UsuarioIdArgs : prestarLibro(l, u)
                  \/ \E p \in PrestamoIdArgs : devolverLibro(p)
            \/ ret'.op = "listarLibros" /\ op_listarLibros
            \/ ret'.op = "listarUsuarios" /\ op_listarUsuarios
            \/ ret'.op = "listarPrestamos" /\ \E b \in BOOLEAN : op_listarPrestamos(b)
            \/ ret'.op = "estadisticas" /\ estadisticas )
            => /\ dataFile' = dataFile
               /\ UNCHANGED mem]_vars

\* estadisticas() was called while the state in memory was not the stored one
C27_Witness ==
    /\ ret.op = "estadisticas"
    /\ dataFile.exists
    /\ ~Persisted(dataFile, libros, usuarios, prestamos, nextIds)
    /\ Len(prestamos) > Len(dataFile.json.prestamos)

---------------------------------------------------------------------------
(* Two Biblioteca objects on one storage *)

\* C28: with two Biblioteca objects on one storage, prestarLibro decides on
\* the fields of the object called alone: a book available there is lent
\* whatever the storage and the other object hold; each successful call
\* writes the whole state of the object called and nothing of the other,
\* whose fields it does not change.
C28_DosInstancias ==
    [][/\ \A l \in LibroIdArgs, u \in UsuarioIdArgs :
            prestarLibro(l, u)
            => /\ otra' = otra
               /\ ( /\ MapHas(usuarios, u)
                    /\ \E i \in 1..Len(libros) :
                          libros[i].id = l /\ libros[i].disponible )
                    => /\ ret'.ok
                       /\ dataFile' = Biblioteca_save(libros', usuarios',
                                                      prestamos', nextIds')
                       /\ Persisted(dataFile', libros', usuarios',
                                    prestamos', nextIds')
       /\ \A p \in PrestamoIdArgs :
            devolverLibro(p)
            => /\ otra' = otra
               /\ ret'.ok
                    => /\ dataFile' = Biblioteca_save(libros', usuarios',
                                                      prestamos', nextIds')
                       /\ Persisted(dataFile', libros', usuarios',
                                    prestamos', nextIds')
       /\ cambiar => dataFile' = dataFile]_vars

\* both objects hold an active loan of the same book; the snapshot is the
\* state of the one called last and lacks the loan id the other issued
C28_Witness ==
    /\ otra.existe
    /\ ret.op = "prestarLibro"
    /\ ret.ok
    /\ Persisted(dataFile, libros, usuarios, prestamos, nextIds)
    /\ \E k \in 1..Len(otra.prestamos) :
          /\ otra.prestamos[k].libroId = ret.args[1]
          /\ otra.prestamos[k].fechaDevolucion = Undefined
          /\ \A j \in 1..Len(dataFile.json.prestamos) :
                dataFile.json.prestamos[j].id # otra.prestamos[k].id

=============================================================================
